---- MODULE Spec2Model ----
(***************************************************************************)
(* Model of endpoints/call.py: the namespace index (get_controllers and    *)
(* its process-wide cache), the controller resolution of Call and the      *)
(* dispatch performed by Call.handle().                                    *)
(*                                                                         *)
(* Strings are sequences of one-character strings, so that concatenation,  *)
(* startswith, capitalize and upper are computed and not assumed.          *)
(***************************************************************************)
EXTENDS Integers, Sequences, FiniteSets, TLC

\* ------------------------------------------------------------------ bounds
MaxPath == 3
MaxObjs == 3
NumThreads == 2

\* ----------------------------------------------------------------- strings
LowerChars == <<"a","b","c","d","e","f","g","h","i","j","k","l","m",
                "n","o","p","q","r","s","t","u","v","w","x","y","z">>
UpperChars == <<"A","B","C","D","E","F","G","H","I","J","K","L","M",
                "N","O","P","Q","R","S","T","U","V","W","X","Y","Z">>

\* one character of str.upper()
UpperChar(c) ==
    IF \E i \in 1..26 : LowerChars[i] = c
    THEN UpperChars[CHOOSE i \in 1..26 : LowerChars[i] = c]
    ELSE c

\* one character of str.lower()
LowerChar(c) ==
    IF \E i \in 1..26 : UpperChars[i] = c
    THEN LowerChars[CHOOSE i \in 1..26 : UpperChars[i] = c]
    ELSE c

\* str.upper()
Upper(s) == [i \in 1..Len(s) |-> UpperChar(s[i])]

\* str.capitalize(): first character upper-cased, the rest lower-cased
Capitalize(s) ==
    [i \in 1..Len(s) |-> IF i = 1 THEN UpperChar(s[i]) ELSE LowerChar(s[i])]

\* str.startswith(p)
StartsWith(s, p) == Len(s) >= Len(p) /\ SubSeq(s, 1, Len(p)) = p

\* str.endswith(p)
EndsWith(s, p) ==
    Len(s) >= Len(p) /\ SubSeq(s, Len(s) - Len(p) + 1, Len(s)) = p

\* sep.join(parts)
RECURSIVE Join(_, _)
Join(parts, sep) ==
    IF Len(parts) = 0 THEN <<>>
    ELSE IF Len(parts) = 1 THEN parts[1]
    ELSE parts[1] \o sep \o Join(Tail(parts), sep)

\* s.split(c) for a one-character separator c
RECURSIVE Split(_, _)
Split(s, c) ==
    IF \E i \in 1..Len(s) : s[i] = c
    THEN LET i == CHOOSE j \in 1..Len(s) :
                      s[j] = c /\ \A k \in 1..(j - 1) : s[k] # c
         IN  <<SubSeq(s, 1, i - 1)>> \o Split(SubSeq(s, i + 1, Len(s)), c)
    ELSE <<s>>

DOT == <<".">>
PY == <<".","p","y">>
INIT == <<"_","_","i","n","i","t","_","_">>
INIT_PY == INIT \o PY
GET == <<"G","E","T">>
POST == <<"P","O","S","T">>
Default == <<"D","e","f","a","u","l","t">>

\* -------------------------------------------------------------- exceptions
NoExc == [type |-> "None", code |-> 0]
Exc(t) == [type |-> t, code |-> 0]

\* class CallError(RuntimeError) with its code attribute
CallError(code) == [type |-> "CallError", code |-> code]

\* the base class of each exception class
BaseOf(t) ==
    CASE t = "CallError" -> "RuntimeError"
      [] t = "RuntimeError" -> "StandardError"
      [] t = "ImportError" -> "StandardError"
      [] t = "AttributeError" -> "StandardError"
      [] t = "TypeError" -> "StandardError"
      [] t = "ValueError" -> "StandardError"
      [] t = "StandardError" -> "Exception"
      [] t = "Exception" -> "BaseException"
      [] t = "SystemExit" -> "BaseException"
      [] OTHER -> "object"

\* isinstance(e, cls), which is what an except clause tests
RECURSIVE IsSubclass(_, _)
IsSubclass(t, cls) ==
    IF t = cls THEN TRUE
    ELSE IF t = "object" \/ t = "None" THEN FALSE
    ELSE IsSubclass(BaseOf(t), cls)

IsInstance(e, cls) == IsSubclass(e.type, cls)

\* ------------------------------------------------------- handler universe
RootR == <<"r">>
RootS == <<"s">>
SegA == <<"a">>
SegB == <<"b">>
SegP == <<"_","p">>
ClsA == <<"A">>
ClsB == <<"B">>

EmptyFn == [x \in {} |-> 0]

\* a class found as a module attribute: a handler class with its HTTP-method
\* entry points, or any other attribute (an imported helper class); ctor is
\* what calling it with (request, response) does
Controller(methods, ctor) ==
    [kind |-> "controller", ctor |-> ctor, methods |-> methods,
     routes |-> EmptyFn]
Helper ==
    [kind |-> "helper", ctor |-> "TypeError", methods |-> {},
     routes |-> EmptyFn]

\* the content of a .py file: what executing it raises, and its attributes
Unit(load, attrs) == [load |-> load, attrs |-> attrs]

UnitPlain ==
    Unit("ok", (Default :> Controller({GET}, "ok"))
               @@ (ClsB :> Controller({GET, POST}, "ok")))
UnitHelper ==
    Unit("ok", (Default :> Controller({GET}, "ok")) @@ (ClsA :> Helper))
UnitNoDefault ==
    Unit("ok", (ClsB :> Controller({POST}, "AttributeError")))
UnitImportError == Unit("ImportError", EmptyFn)
UnitValueError == Unit("ValueError", EmptyFn)
UnitPkgA ==
    Unit("ok", (Default :> Controller({GET}, "ok"))
               @@ (ClsB :> Controller({GET}, "ok")))
UnitLeafB == Unit("ok", (ClsA :> Controller({GET}, "ok")))
RootUnits ==
    {UnitPlain, UnitHelper, UnitNoDefault, UnitImportError, UnitValueError}

\* ------------------------------------------------------------- file system
\* fs maps a directory (its path from the import root, a sequence of names)
\* to its files, a function from file name to content.  fs[<<>>] is the
\* directory on sys.path.
SubTreeA(aKind, aB) ==
    IF aKind \in {"pkg", "plain"}
    THEN (<<RootR, SegA>> :>
            ((IF aKind = "pkg" THEN (INIT_PY :> UnitPkgA) ELSE EmptyFn)
             @@ (IF aB THEN ((SegB \o PY) :> UnitLeafB) ELSE EmptyFn)))
    ELSE EmptyFn

Tree(rootUnit, aKind, aB, hasP) ==
    (<<>> :> EmptyFn)
    @@ (<<RootS>> :> (INIT_PY :> UnitPlain))
    @@ (<<RootR>> :>
          ((INIT_PY :> rootUnit)
           @@ (IF aKind = "leaf" THEN ((SegA \o PY) :> UnitPkgA) ELSE EmptyFn)))
    @@ SubTreeA(aKind, aB)
    @@ (IF hasP THEN (<<RootR, SegP>> :> (INIT_PY :> UnitPlain)) ELSE EmptyFn)

\* the tree in which root r does not exist (yet)
TreeNoRoot == (<<>> :> EmptyFn) @@ (<<RootS>> :> (INIT_PY :> UnitPlain))

Trees ==
    {Tree(u, "none", FALSE, FALSE) : u \in RootUnits}
    \cup {Tree(UnitPlain, "pkg", TRUE, FALSE),
          Tree(UnitPlain, "plain", TRUE, FALSE),
          Tree(UnitHelper, "leaf", FALSE, FALSE),
          Tree(UnitPlain, "none", FALSE, TRUE),
          TreeNoRoot}

VARIABLES
    fs,         \* the handler tree on disk
    cache,      \* _module_cache: controller prefix -> set object (its id)
    heap,       \* set objects: id -> set of dotted module names
    nextId,     \* the id the next allocated set object gets
    walks,      \* controller prefix -> number of os.walk() runs for it
    ret,        \* outcome of the last direct get_controllers() call
    pc,         \* where the current Call.handle() stands
    call,       \* the Call: controller_prefix and its request
    info,       \* d, the controller info gathered so far
    exc,        \* the exception in flight inside handle()
    trace,      \* where the exception was first raised, and what it was
    response,   \* the Call's Response
    invoked,    \* how often handle() called the handler method
    returns,    \* how often handle() returned to its caller
    thr         \* the threads inside get_controllers(): where each stands

\* --------------------------------------------------------------- importing
\* importlib.import_module(name): every package on the way is loaded first,
\* a unit that is missing raises ImportError and a unit whose execution
\* raises propagates that error.  The units of a tree never change once they
\* exist, so a module served from sys.modules is the module loaded here.
RECURSIVE ImportStep(_, _, _)
ImportStep(comps, i, dir) ==
    LET c == comps[i]
        pkgdir == Append(dir, c)
        isPkg == pkgdir \in DOMAIN fs /\ INIT_PY \in DOMAIN fs[pkgdir]
        isMod == dir \in DOMAIN fs /\ (c \o PY) \in DOMAIN fs[dir]
        unit == IF isPkg THEN fs[pkgdir][INIT_PY] ELSE fs[dir][c \o PY]
        m == [attrs |-> unit.attrs,
              basedir |-> IF isPkg THEN pkgdir ELSE dir,
              ispkg |-> isPkg]
    IN  IF ~isPkg /\ ~isMod
        THEN [exc |-> Exc("ImportError"), mod |-> EmptyFn]
        ELSE IF unit.load # "ok"
        THEN [exc |-> Exc(unit.load), mod |-> EmptyFn]
        ELSE IF i = Len(comps)
        THEN [exc |-> NoExc, mod |-> m]
        ELSE IF ~isPkg
        THEN [exc |-> Exc("ImportError"), mod |-> EmptyFn]
        ELSE ImportStep(comps, i + 1, pkgdir)

ImportModule(name) == ImportStep(Split(name, "."), 1, <<>>)

\* ---------------------------------------------------------- get_controllers
\* dirs[:] = [d for d in dirs if d[0] != '.' or d[0] != '_']
KeepDir(d) == d[1] # "." \/ d[1] # "_"

SubDirs(dir) ==
    {q \in DOMAIN fs : Len(q) = Len(dir) + 1 /\ SubSeq(q, 1, Len(dir)) = dir}

\* the directories os.walk(basedir, topdown=True) visits
RECURSIVE WalkDirs(_)
WalkDirs(dir) ==
    {dir} \cup UNION {WalkDirs(q) : q \in {x \in SubDirs(dir) :
                                             KeepDir(x[Len(x)])}}

\* the names the body of the walk loop adds for one visited directory
DirModules(prefix, basedir, dir) ==
    LET module_name ==
            <<prefix>> \o SubSeq(dir, Len(basedir) + 1, Len(dir))
        pyfiles == {f \in DOMAIN fs[dir] : EndsWith(f, PY)}
    IN  {Join(module_name, DOT) : f \in {g \in pyfiles : StartsWith(g, INIT)}}
        \cup {Join(module_name \o <<SubSeq(f, 1, Len(f) - Len(PY))>>, DOT) :
                f \in {g \in pyfiles : ~StartsWith(g, INIT)
                                       /\ ~StartsWith(g, <<"_">>)}}

WalkModules(prefix, basedir) ==
    UNION {DirModules(prefix, basedir, dir) : dir \in WalkDirs(basedir)}

\* get_controllers never looking into _module_cache
CacheHit_Never(controller_prefix, c) == FALSE

\* whether get_controllers serves the prefix from _module_cache
CacheHit(controller_prefix, c) == controller_prefix \in DOMAIN c

\* get_controllers without its line 41: the entry setdefault() made stays
get_controllers_NoAssign(controller_prefix, c, h, n, w) ==
    IF controller_prefix = <<>>
    THEN [exc |-> Exc("ValueError"), id |-> 0, cache |-> c, heap |-> h,
          nextId |-> n, walks |-> w]
    ELSE IF CacheHit(controller_prefix, c)
    THEN [exc |-> NoExc, id |-> c[controller_prefix], cache |-> c,
          heap |-> h, nextId |-> n, walks |-> w]
    ELSE LET m == ImportModule(controller_prefix)
         IN  IF m.exc # NoExc
             THEN [exc |-> m.exc, id |-> 0, cache |-> c, heap |-> h,
                   nextId |-> n, walks |-> w]
             ELSE [exc |-> NoExc, id |-> n,
                   cache |-> c @@ (controller_prefix :> n + 1),
                   heap |-> h @@ (n :> WalkModules(controller_prefix,
                                                   m.mod.basedir))
                             @@ (n + 1 :> {}),
                   nextId |-> n + 2,
                   walks |-> [w EXCEPT ![controller_prefix] = @ + 1]]

\* get_controllers making its cache entry before the import, so that a root
\* that fails to load leaves an empty entry behind
get_controllers_CachesFailure(controller_prefix, c, h, n, w) ==
    IF controller_prefix = <<>>
    THEN [exc |-> Exc("ValueError"), id |-> 0, cache |-> c, heap |-> h,
          nextId |-> n, walks |-> w]
    ELSE IF CacheHit(controller_prefix, c)
    THEN [exc |-> NoExc, id |-> c[controller_prefix], cache |-> c,
          heap |-> h, nextId |-> n, walks |-> w]
    ELSE LET m == ImportModule(controller_prefix)
         IN  IF m.exc # NoExc
             THEN [exc |-> m.exc, id |-> 0,
                   cache |-> c @@ (controller_prefix :> n),
                   heap |-> h @@ (n :> {}), nextId |-> n + 1, walks |-> w]
             ELSE [exc |-> NoExc, id |-> n,
                   cache |-> [x \in DOMAIN c \cup {controller_prefix} |->
                                IF x = controller_prefix THEN n ELSE c[x]],
                   heap |-> h @@ (n :> WalkModules(controller_prefix,
                                                   m.mod.basedir)),
                   nextId |-> n + 1,
                   walks |-> [w EXCEPT ![controller_prefix] = @ + 1]]

\* get_controllers(controller_prefix) run on cache c and heap h with next
\* object id n: the exception raised or the id of the returned set, and the
\* state left
get_controllers(controller_prefix, c, h, n, w) ==
    IF controller_prefix = <<>>
    THEN [exc |-> Exc("ValueError"), id |-> 0, cache |-> c, heap |-> h,
          nextId |-> n, walks |-> w]
    ELSE IF CacheHit(controller_prefix, c)
    THEN [exc |-> NoExc, id |-> c[controller_prefix], cache |-> c,
          heap |-> h, nextId |-> n, walks |-> w]
    ELSE LET m == ImportModule(controller_prefix)
         IN  IF m.exc # NoExc
             THEN [exc |-> m.exc, id |-> 0, cache |-> c, heap |-> h,
                   nextId |-> n, walks |-> w]
             ELSE [exc |-> NoExc, id |-> n,
                   cache |-> [x \in DOMAIN c \cup {controller_prefix} |->
                                IF x = controller_prefix THEN n ELSE c[x]],
                   heap |-> h @@ (n :> WalkModules(controller_prefix,
                                                   m.mod.basedir)),
                   nextId |-> n + 1,
                   walks |-> [w EXCEPT ![controller_prefix] = @ + 1]]

Prefixes == {RootR, RootS, <<>>}

\* ------------------------------------------------------------- resolution
\* the loop leaving after the first segment it consumed
WalkLoop_FirstMatch(mod_name, module_name, path_args, cset) ==
    IF path_args = <<>>
    THEN [module_name |-> module_name, path_args |-> path_args]
    ELSE LET next == mod_name \o DOT \o path_args[1]
         IN  IF next \in cset
             THEN [module_name |-> next, path_args |-> Tail(path_args)]
             ELSE [module_name |-> module_name, path_args |-> path_args]

\* the while loop of get_controller_info_advanced
RECURSIVE WalkLoop(_, _, _, _)
WalkLoop(mod_name, module_name, path_args, cset) ==
    IF path_args = <<>>
    THEN [module_name |-> module_name, path_args |-> path_args]
    ELSE LET next == mod_name \o DOT \o path_args[1]
         IN  IF next \in cset
             THEN WalkLoop(next, next, Tail(path_args), cset)
             ELSE [module_name |-> module_name, path_args |-> path_args]

\* the class segment selected but not popped from the path
ClassSegment_NoPop(module, path_args) ==
    IF path_args # <<>> /\ Capitalize(path_args[1]) \in DOMAIN module.attrs
    THEN [class_name |-> Capitalize(path_args[1]), path_args |-> path_args]
    ELSE [class_name |-> Default, path_args |-> path_args]

\* "let's get the class": the class name and what is left of the path
ClassSegment(module, path_args) ==
    IF path_args # <<>> /\ Capitalize(path_args[1]) \in DOMAIN module.attrs
    THEN [class_name |-> Capitalize(path_args[1]),
          path_args |-> Tail(path_args)]
    ELSE [class_name |-> Default, path_args |-> path_args]

NoClass ==
    [kind |-> "none", ctor |-> "none", methods |-> {}, routes |-> EmptyFn]
NoModule == [attrs |-> EmptyFn, basedir |-> <<>>, ispkg |-> FALSE]

\* the dict get_controller_info_advanced starts from; controller_prefix is
\* not a key of d but the local variable of that name, callback is the name
\* of the method get_callback_info hands to handle(), tried are the
\* alternatives whose route predicate was evaluated for it
InfoStart(req) ==
    [module_name |-> <<>>, class_name |-> Default, module |-> NoModule,
     class |-> NoClass, method |-> Upper(req.method), args |-> <<>>,
     kwargs |-> EmptyFn, controller_prefix |-> <<>>, callback |-> <<>>,
     tried |-> <<>>]

\* Call.get_normalized_prefix
get_normalized_prefix(c) == c.controller_prefix

\* ------------------------------------------------------------ VersionCall
\* None, which no string equals
VNone == <<"None">>
V1 == <<"v", "1">>
V2 == <<"v", "2">>
\* "if v": neither None nor the empty string
Truthy(v) == v # VNone /\ v # <<>>

\* One entry of an Accept header as it is written: type/subtype, the q
\* parameter in tenths (NoQ when it is absent or no number) and the other
\* parameters.
NoQ == 0 - 1
DefaultQ == 10
MediaType(type, subtype, q, params) ==
    [type |-> type, subtype |-> subtype, q |-> q, params |-> params]
Version(v) == "version" :> v
Quality(e) == IF e.q = NoQ THEN DefaultQ ELSE e.q

\* the entry put behind the last entry of the sorted sequence that does not
\* have a lower quality
RECURSIVE InsertByQuality(_, _)
InsertByQuality(e, sorted) ==
    IF sorted = <<>> THEN <<e>>
    ELSE IF Quality(Head(sorted)) < Quality(e) THEN <<e>> \o sorted
    ELSE <<Head(sorted)>> \o InsertByQuality(e, Tail(sorted))

\* AcceptHeader(header): the entries sorted by quality, highest first, equal
\* qualities in the order of the header
RECURSIVE AcceptHeader(_)
AcceptHeader(header) ==
    IF header = <<>> THEN <<>>
    ELSE InsertByQuality(header[Len(header)],
                         AcceptHeader(SubSeq(header, 1, Len(header) - 1)))

\* Call.content_type as media type
ContentMedia == [type |-> "application", subtype |-> "json"]

\* whether an entry is compatible with the media type
Compatible(e, media) ==
    \/ e.type = media.type /\ e.subtype = media.subtype
    \/ e.type = media.type /\ e.subtype = "*"
    \/ e.type = "*" /\ e.subtype = "*"

\* AcceptHeader.filter(media_type)
AcceptFilter(entries, media) ==
    SelectSeq(entries, LAMBDA e : Compatible(e, media))

\* mt[2].get(u"version", None)
VersionOf(e) ==
    IF "version" \in DOMAIN e.params THEN e.params["version"] ELSE VNone

\* the for loop of get_version: v after the loop, starting from v
RECURSIVE VersionLoop(_, _)
VersionLoop(v, entries) ==
    IF entries = <<>> THEN v
    ELSE IF Truthy(VersionOf(Head(entries))) THEN VersionOf(Head(entries))
    ELSE VersionLoop(VersionOf(Head(entries)), Tail(entries))

\* h.get('accept', u"")
AcceptOf(req) ==
    IF "accept" \in DOMAIN req.headers THEN req.headers["accept"] ELSE <<>>

\* get_version raising 406 whenever the header gave no version, without a
\* look at default_version
get_version_NoDefault(c) ==
    LET accept_header == AcceptOf(c.request)
        v == IF accept_header # <<>>
             THEN VersionLoop(VNone, AcceptFilter(AcceptHeader(accept_header),
                                                  ContentMedia))
             ELSE VNone
    IN  IF Truthy(v) THEN [exc |-> NoExc, v |-> v]
        ELSE [exc |-> CallError(406), v |-> VNone]

\* get_version looking at the first compatible entry only
get_version_FirstEntryOnly(c) ==
    LET accept_header == AcceptOf(c.request)
        entries == AcceptFilter(AcceptHeader(accept_header), ContentMedia)
        v == IF accept_header # <<>> /\ entries # <<>>
             THEN VersionOf(Head(entries))
             ELSE VNone
    IN  IF Truthy(v) THEN [exc |-> NoExc, v |-> v]
        ELSE IF Truthy(c.default_version)
        THEN [exc |-> NoExc, v |-> c.default_version]
        ELSE [exc |-> CallError(406), v |-> VNone]

\* VersionCall.get_version; content_type is set
get_version(c) ==
    LET accept_header == AcceptOf(c.request)
        v == IF accept_header # <<>>
             THEN VersionLoop(VNone, AcceptFilter(AcceptHeader(accept_header),
                                                  ContentMedia))
             ELSE VNone
    IN  IF Truthy(v) THEN [exc |-> NoExc, v |-> v]
        ELSE IF Truthy(c.default_version)
        THEN [exc |-> NoExc, v |-> c.default_version]
        ELSE [exc |-> CallError(406), v |-> VNone]

\* VersionCall.get_normalized_prefix
VersionCall_get_normalized_prefix(c) ==
    LET cp == c.controller_prefix
        r == get_version(c)
    IN  IF r.exc # NoExc THEN [exc |-> r.exc, prefix |-> <<>>]
        ELSE [exc |-> NoExc,
              prefix |-> IF cp # <<>> THEN cp \o DOT \o r.v ELSE r.v]

\* the prefixes a VersionCall on root r can ask get_controllers() for
VersionPrefixes == {RootR \o DOT \o v : v \in {V1, V2}}

\* self.get_normalized_prefix() on a Call or a VersionCall
NormalizedPrefix(c) ==
    IF c.kind = "VersionCall"
    THEN VersionCall_get_normalized_prefix(c)
    ELSE [exc |-> NoExc, prefix |-> get_normalized_prefix(c)]

\* get_controller_info_advanced up to the import of the resolved module
InfoNamespace(c, ch, h, n, w) ==
    LET np == NormalizedPrefix(c)
        controller_prefix == np.prefix
        g == get_controllers(controller_prefix, ch, h, n, w)
        wl == WalkLoop(controller_prefix, controller_prefix,
                       c.request.path_args, g.heap[g.id])
        m == ImportModule(wl.module_name)
        d0 == [InfoStart(c.request) EXCEPT
                 !.controller_prefix = controller_prefix]
    IN  IF np.exc # NoExc
        THEN [exc |-> np.exc, d |-> d0,
              g |-> [exc |-> NoExc, id |-> 0, cache |-> ch, heap |-> h,
                     nextId |-> n, walks |-> w]]
        ELSE IF g.exc # NoExc
        THEN [exc |-> g.exc, d |-> d0, g |-> g]
        ELSE IF m.exc # NoExc
        THEN [exc |-> m.exc,
              d |-> [d0 EXCEPT !.module_name = wl.module_name,
                               !.args = wl.path_args],
              g |-> g]
        ELSE [exc |-> NoExc,
              d |-> [d0 EXCEPT !.module_name = wl.module_name,
                               !.module = m.mod, !.args = wl.path_args],
              g |-> g]

\* the rest of get_controller_info_advanced: class name and class lookup,
\* then args and kwargs; di.args holds the path segments not consumed so far
InfoClass(di, req) ==
    LET cs == ClassSegment(di.module, di.args)
    IN  IF cs.class_name \in DOMAIN di.module.attrs
        THEN [exc |-> NoExc,
              d |-> [di EXCEPT !.class_name = cs.class_name,
                               !.class = di.module.attrs[cs.class_name],
                               !.args = cs.path_args,
                               !.kwargs = req.query_kwargs]]
        ELSE [exc |-> Exc("AttributeError"),
              d |-> [di EXCEPT !.class_name = cs.class_name,
                               !.args = cs.path_args]]

\* get_controller_info(): both parts in one go, on cache ch and heap h
get_controller_info(c, ch, h, n, w) ==
    LET ns == InfoNamespace(c, ch, h, n, w)
        cl == InfoClass(ns.d, c.request)
    IN  IF ns.exc # NoExc
        THEN ns
        ELSE [exc |-> cl.exc, d |-> cl.d, g |-> ns.g]

\* get_callback_info catching AttributeError only
InfoError_OnlyAttributeError(e) ==
    IF IsInstance(e, "AttributeError") THEN CallError(404) ELSE e

\* get_callback_info, first try block: what an error of
\* get_controller_info leaves get_callback_info as
InfoError(e) ==
    IF IsInstance(e, "ImportError") \/ IsInstance(e, "AttributeError")
    THEN CallError(404)
    ELSE e

\* get_callback_info looking the method up inside the first try block, so
\* that a missing method is reported like a missing class
Callback_MissingMethodAs404(di) ==
    IF di.class.ctor = "AttributeError" THEN CallError(405)
    ELSE IF di.class.ctor # "ok" THEN Exc(di.class.ctor)
    ELSE IF di.method \notin di.class.methods THEN CallError(404)
    ELSE NoExc

\* get_callback_info instantiating the class outside its second try block:
\* what the constructor raises leaves get_callback_info as it is
Callback_CtorErrorPropagates(di) ==
    IF di.class.ctor # "ok" THEN Exc(di.class.ctor)
    ELSE IF di.method \notin di.class.methods THEN CallError(405)
    ELSE NoExc

\* get_callback_info taking the method for granted once the instance exists
Callback_NoMethodCheck(di) ==
    IF di.class.ctor = "AttributeError" THEN CallError(405)
    ELSE IF di.class.ctor # "ok" THEN Exc(di.class.ctor)
    ELSE NoExc

\* get_callback_info, second try block: instantiate the class and look the
\* method up on the instance
Callback(di) ==
    IF di.class.ctor = "AttributeError" THEN CallError(405)
    ELSE IF di.class.ctor # "ok" THEN Exc(di.class.ctor)
    ELSE IF di.method \notin di.class.methods THEN CallError(405)
    ELSE NoExc

\* handle() without its catch-all clause: only "except CallError" is left
HandleCatches_OnlyCallError(e) == IsInstance(e, "CallError")

\* handle(): whether one of its two except clauses matches the exception
HandleCatches(e) == IsInstance(e, "CallError") \/ IsInstance(e, "Exception")

\* handle() reporting an ImportError or AttributeError of the handler as 404
HandleCode_LookupErrorsAs404(e) ==
    IF IsInstance(e, "CallError") THEN e.code
    ELSE IF IsInstance(e, "ImportError") \/ IsInstance(e, "AttributeError")
    THEN 404
    ELSE 500

\* handle(): the status code the matching except clause stores
HandleCode(e) == IF IsInstance(e, "CallError") THEN e.code ELSE 500

\* --------------------------------------------------------- route decorators
\* int(x) of a string: its value, or ValueError
Digits == <<"0", "1", "2", "3", "4", "5", "6", "7", "8", "9">>
IsDigit(ch) == \E i \in 1..Len(Digits) : Digits[i] = ch
DigitValue(ch) == (CHOOSE i \in 1..Len(Digits) : Digits[i] = ch) - 1

RECURSIVE IntValue(_)
IntValue(x) ==
    IF Len(x) = 1 THEN DigitValue(x[1])
    ELSE IntValue(SubSeq(x, 1, Len(x) - 1)) * Len(Digits)
         + DigitValue(x[Len(x)])

IntOf(x) ==
    IF x # <<>> /\ \A i \in 1..Len(x) : IsDigit(x[i])
    THEN [exc |-> NoExc, val |-> IntValue(x)]
    ELSE [exc |-> Exc("ValueError"), val |-> 0]

\* a value a param_route is to match: an int or a string
IntMatch(n) == [type |-> "int", val |-> n]
StrMatch(x) == [type |-> "str", val |-> x]

\* type(v)(x) for a query value x, which is a string
Coerce(v, x) ==
    IF v.type = "int" THEN IntOf(x) ELSE [exc |-> NoExc, val |-> x]

\* the decorators with what they are given at definition time
Route(lens) == [kind |-> "route", lens |-> lens]
PathRoute(paths) == [kind |-> "path_route", paths |-> paths]
ParamRoute(keys, matches) ==
    [kind |-> "param_route", keys |-> keys, matches |-> matches]

\* one alternative implementation (GET_1, GET_2, ...) with its decorator
Alternative(name, deco) == [name |-> name, deco |-> deco]
Suffixed(method, n) == method \o <<"_">> \o <<Digits[n + 1]>>

\* route.handle: self.callback(request); the callbacks are those of the
\* docstring, lambda req: len(req.path_args) in lens
route_handle(deco, req) ==
    [exc |-> NoExc, ret |-> Len(req.path_args) \in deco.lens]

\* Url.normalize_paths: every path is cut at its slashes
RECURSIVE NormalizePaths(_)
NormalizePaths(paths) ==
    IF paths = <<>> THEN <<>>
    ELSE SelectSeq(Split(Head(paths), "/"), LAMBDA x : x # <<>>)
         \o NormalizePaths(Tail(paths))

\* path_route.target: the loop over the normalized paths from position i
RECURSIVE PathLoop(_, _, _)
PathLoop(pas, method_args, i) ==
    IF i > Len(pas) THEN TRUE
    ELSE IF i > Len(method_args) THEN FALSE
    ELSE IF method_args[i] # pas[i] THEN FALSE
    ELSE PathLoop(pas, method_args, i + 1)

path_route_target(deco, di) ==
    [exc |-> NoExc, ret |-> PathLoop(NormalizePaths(deco.paths), di.args, 1)]

\* param_route.target: the loop over self.matches from position i
RECURSIVE MatchLoop(_, _, _)
MatchLoop(matches, method_kwargs, i) ==
    IF i > Len(matches) THEN [exc |-> NoExc, ret |-> TRUE]
    ELSE LET k == matches[i][1]
             v == matches[i][2]
         IN  IF k \notin DOMAIN method_kwargs
             THEN [exc |-> NoExc, ret |-> FALSE]
             ELSE LET x == Coerce(v, method_kwargs[k])
                  IN  IF x.exc # NoExc THEN [exc |-> x.exc, ret |-> FALSE]
                      ELSE IF x.val # v.val
                      THEN [exc |-> NoExc, ret |-> FALSE]
                      ELSE MatchLoop(matches, method_kwargs, i + 1)

param_route_target(deco, di) ==
    IF \E i \in 1..Len(deco.keys) : deco.keys[i] \notin DOMAIN di.kwargs
    THEN [exc |-> NoExc, ret |-> FALSE]
    ELSE MatchLoop(deco.matches, di.kwargs, 1)

\* the predicate of a decorator evaluated for the request
RouteTarget(deco, req, di) ==
    CASE deco.kind = "route" -> route_handle(deco, req)
      [] deco.kind = "path_route" -> path_route_target(deco, di)
      [] deco.kind = "param_route" -> param_route_target(deco, di)

\* handle_error never raising: the alternative is taken whatever its
\* predicate returned
RouteRejects_Never(matched) == FALSE

\* route.handle_error: a predicate that returned false makes the decorator
\* raise RouteError, and the alternative is not called
RouteRejects(matched) == ~matched

\* every decorator failing the request the way route does
handle_failure_Always405(deco) == CallError(405)

\* route.handle_failure, which path_route inherits, and
\* param_route.handle_failure
handle_failure(deco) ==
    IF deco.kind = "param_route" THEN CallError(400) ELSE CallError(405)

\* The alternatives of one method are tried in the order of their
\* declaration, the first that does not raise RouteError is taken, and when
\* all did, handle_failure of the first is called.  alts are the alternatives
\* still to try, tried the names of those tried before.
RECURSIVE SelectRoute(_, _, _, _, _)
SelectRoute(all, alts, tried, req, di) ==
    IF alts = <<>>
    THEN [exc |-> handle_failure(all[1].deco), name |-> <<>>,
          tried |-> tried]
    ELSE LET alt == Head(alts)
             m == RouteTarget(alt.deco, req, di)
             now == Append(tried, alt.name)
         IN  IF m.exc # NoExc
             THEN [exc |-> m.exc, name |-> <<>>, tried |-> now]
             ELSE IF RouteRejects(m.ret)
             THEN SelectRoute(all, Tail(alts), now, req, di)
             ELSE [exc |-> NoExc, name |-> alt.name, tried |-> now]

\* the method handle() gets for d, and the alternatives tried for it
BoundMethod(di, req) ==
    IF di.method \in DOMAIN di.class.routes
    THEN SelectRoute(di.class.routes[di.method], di.class.routes[di.method],
                     <<>>, req, di)
    ELSE [exc |-> NoExc, name |-> di.method, tried |-> <<>>]

\* a handler class whose methods are split into decorated alternatives
RouteController(routes) ==
    [kind |-> "controller", ctor |-> "ok", methods |-> DOMAIN routes,
     routes |-> routes]

SegBA == <<"b", "A">>
ClsBA == <<"B", "A">>
KeyK == <<"k">>

UnitRoutes ==
    Unit("ok",
         (Default :> RouteController(
             GET :> <<Alternative(Suffixed(GET, 1), Route({2})),
                      Alternative(Suffixed(GET, 2), Route({1, 2})),
                      Alternative(Suffixed(GET, 3), Route({1}))>>))
         @@ (ClsB :> RouteController(
             GET :> <<Alternative(Suffixed(GET, 1),
                                  PathRoute(<<<<"a", "/", "b">>>>)),
                      Alternative(Suffixed(GET, 2),
                                  PathRoute(<<SegA>>))>>))
         @@ (ClsA :> RouteController(
             GET :> <<Alternative(Suffixed(GET, 1),
                                  ParamRoute(<<KeyK>>,
                                             <<<<KeyK, IntMatch(1)>>>>)),
                      Alternative(Suffixed(GET, 2),
                                  ParamRoute(<<KeyK>>,
                                             <<<<KeyK,
                                                 StrMatch(<<"2">>)>>>>))>>))
         @@ (ClsBA :> Controller({GET}, "ok")))

TreeRoutes ==
    (<<>> :> EmptyFn) @@ (<<RootR>> :> (INIT_PY :> UnitRoutes))

\* ------------------------------------------------------------------ inputs
Segments == {SegA, SegB, SegP}

RECURSIVE PathsOfLen(_)
PathsOfLen(n) ==
    IF n = 0 THEN {<<>>}
    ELSE {<<x>> \o p : x \in Segments, p \in PathsOfLen(n - 1)}

Paths == UNION {PathsOfLen(n) : n \in 0..MaxPath}
Methods == {<<"g","e","t">>, POST}
\* request.query_kwargs: the parsed query string
QueryKwargs == {EmptyFn, (<<"k">> :> <<"1">>)}
ReturnValues == {"hello", "bye"}

\* what a handler method can raise
HandlerErrors ==
    {CallError(400), CallError(404), Exc("TypeError"), Exc("ImportError"),
     Exc("AttributeError"), Exc("SystemExit")}

\* Call.content_type
content_type == "application/json"

BodyNone == [kind |-> "none", val |-> "", exc |-> NoExc]
BodyValue(v) == [kind |-> "value", val |-> v, exc |-> NoExc]
BodyError(e) == [kind |-> "error", val |-> "", exc |-> e]

\* Response(): the default status code, no body, no Content-Type header
NewResponse == [code |-> 200, body |-> BodyNone, content_type |-> "unset"]

NoCall == [kind |-> "Call", controller_prefix |-> <<>>,
           default_version |-> VNone,
           request |-> [method |-> <<>>, path_args |-> <<>>,
                        query_kwargs |-> EmptyFn, headers |-> EmptyFn]]
NoTrace == [stage |-> "none", exc |-> NoExc]
NoRet == [prefix |-> <<>>, exc |-> NoExc, id |-> 0, again |-> FALSE]
Threads == 1..NumThreads
\* a thread that is not inside get_controllers()
ThreadIdle ==
    [pc |-> "idle", prefix |-> <<>>, modules |-> 0, ret |-> 0, exc |-> NoExc]

vars == <<fs, cache, heap, nextId, walks, ret, pc, call, info, exc, trace,
          response, invoked, returns, thr>>
indexVars == <<cache, heap, nextId, walks>>
callVars == <<call, info, exc, trace, response, invoked, returns>>

\* before the first call: nothing is cached, no request is being handled
InitCalls ==
    /\ cache = EmptyFn
    /\ heap = EmptyFn
    /\ nextId = 1
    /\ walks = [p \in Prefixes \cup VersionPrefixes |-> 0]
    /\ ret = NoRet
    /\ pc = "idle"
    /\ call = NoCall
    /\ info = InfoStart(NoCall.request)
    /\ exc = NoExc
    /\ trace = NoTrace
    /\ response = NewResponse
    /\ invoked = 0
    /\ returns = 0
    /\ thr = [t \in Threads |-> ThreadIdle]

Init == fs \in Trees /\ InitCalls

\* the package of root r is created on disk, between two requests or after
\* a caller of get_controllers() got an error
CreateRoot ==
    /\ pc = "idle" \/ (pc = "listed" /\ ret.exc # NoExc)
    /\ fs = TreeNoRoot
    /\ fs' \in Trees \ {TreeNoRoot}
    /\ UNCHANGED <<thr, indexVars, ret, pc, callVars>>

SetIndex(g) ==
    /\ g.nextId <= MaxObjs + 1
    /\ cache' = g.cache
    /\ heap' = g.heap
    /\ nextId' = g.nextId
    /\ walks' = g.walks

\* a direct call get_controllers(prefix)
GetControllers ==
    /\ pc = "idle"
    /\ \E prefix \in Prefixes :
         LET g == get_controllers(prefix, cache, heap, nextId, walks)
         IN  /\ SetIndex(g)
             /\ ret' = [prefix |-> prefix, exc |-> g.exc, id |-> g.id,
                         again |-> FALSE]
    /\ pc' = "listed"
    /\ UNCHANGED <<thr, fs, callVars>>

\* the caller whose get_controllers(prefix) raised calls it once more
GetControllersAgain ==
    /\ pc = "listed"
    /\ ret.exc # NoExc
    /\ ~ret.again
    /\ LET g == get_controllers(ret.prefix, cache, heap, nextId, walks)
       IN  /\ SetIndex(g)
           /\ ret' = [prefix |-> ret.prefix, exc |-> g.exc, id |-> g.id,
                       again |-> TRUE]
    /\ UNCHANGED <<thr, fs, pc, callVars>>

\* Call(controller_prefix) is built, given a request and handle() is entered
NewCall ==
    /\ pc = "idle"
    /\ \E m \in Methods, p \in Paths, k \in QueryKwargs :
         call' = [kind |-> "Call", controller_prefix |-> RootR,
                  default_version |-> VNone,
                  request |-> [method |-> m, path_args |-> p,
                               query_kwargs |-> k, headers |-> EmptyFn]]
    /\ info' = InfoStart(call'.request)
    /\ pc' = "start"
    /\ exc' = NoExc
    /\ trace' = NoTrace
    /\ response' = NewResponse
    /\ invoked' = 0
    /\ returns' = 0
    /\ UNCHANGED <<thr, fs, indexVars, ret>>

\* an exception e leaves get_callback_info at the given stage
Fail(stage, raised, e) ==
    /\ pc' = "failed"
    /\ exc' = e
    /\ trace' = [stage |-> stage, exc |-> raised]

\* get_controller_info: namespace walk and import of the resolved module
ResolveNamespace ==
    /\ pc = "start"
    /\ LET r == InfoNamespace(call, cache, heap, nextId, walks)
       IN  /\ SetIndex(r.g)
           /\ info' = r.d
           /\ IF r.exc # NoExc
              THEN Fail("namespace", r.exc, InfoError(r.exc))
              ELSE pc' = "ns_resolved" /\ UNCHANGED <<exc, trace>>
    /\ UNCHANGED <<thr, fs, ret, call, response, invoked, returns>>

\* get_controller_info: class name and class lookup
ResolveClass ==
    /\ pc = "ns_resolved"
    /\ LET r == InfoClass(info, call.request)
       IN  /\ info' = r.d
           /\ IF r.exc # NoExc
              THEN Fail("class", r.exc, InfoError(r.exc))
              ELSE pc' = "class_resolved" /\ UNCHANGED <<exc, trace>>
    /\ UNCHANGED <<thr, fs, indexVars, ret, call, response, invoked, returns>>

\* get_callback_info: instance and bound method
SelectMethod ==
    /\ pc = "class_resolved"
    /\ LET e == Callback(info)
           b == BoundMethod(info, call.request)
       IN  IF e # NoExc
           THEN /\ Fail(IF info.class.ctor = "ok"
                        THEN "method" ELSE "instance",
                        IF info.class.ctor \in {"ok", "AttributeError"}
                        THEN Exc("AttributeError") ELSE e,
                        e)
                /\ UNCHANGED info
           ELSE /\ info' = [info EXCEPT !.callback = b.name,
                                        !.tried = b.tried]
                /\ IF b.exc # NoExc
                   THEN Fail("route", b.exc, b.exc)
                   ELSE pc' = "method_selected" /\ UNCHANGED <<exc, trace>>
    /\ UNCHANGED <<thr, fs, indexVars, ret, call, response, invoked, returns>>

\* handle() calling the callback without setting the Content-Type header
Invoke_NoHeader ==
    /\ pc = "method_selected"
    /\ invoked' = invoked + 1
    /\ pc' = "invoked"
    /\ UNCHANGED <<thr, fs, indexVars, ret, call, info, exc, trace, returns,
                   response>>

\* handle(): the Content-Type header is set and the callback is called
Invoke ==
    /\ pc = "method_selected"
    /\ response' = [response EXCEPT !.content_type = content_type]
    /\ invoked' = invoked + 1
    /\ pc' = "invoked"
    /\ UNCHANGED <<thr, fs, indexVars, ret, call, info, exc, trace, returns>>

\* the handler method returns and handle() stores the body
HandlerReturns ==
    /\ pc = "invoked"
    /\ \E v \in ReturnValues :
         response' = [response EXCEPT !.body = BodyValue(v)]
    /\ pc' = "responded"
    /\ UNCHANGED <<thr, fs, indexVars, ret, call, info, exc, trace, invoked,
                   returns>>

\* the handler method raises
HandlerRaises ==
    /\ pc = "invoked"
    /\ \E e \in HandlerErrors : Fail("handler", e, e)
    /\ UNCHANGED <<thr, fs, indexVars, ret, call, info, response, invoked,
                   returns>>

\* the except clauses of handle(); an exception neither clause matches
\* leaves handle()
MapError ==
    /\ pc = "failed"
    /\ IF HandleCatches(exc)
       THEN /\ response' = [response EXCEPT !.code = HandleCode(exc),
                                            !.body = BodyError(exc)]
            /\ pc' = "responded"
       ELSE /\ pc' = "raised"
            /\ UNCHANGED response
    /\ UNCHANGED <<thr, fs, indexVars, ret, call, info, exc, trace, invoked,
                   returns>>

\* return self.response
Return ==
    /\ pc = "responded"
    /\ pc' = "returned"
    /\ returns' = returns + 1
    /\ UNCHANGED <<thr, fs, indexVars, ret, call, info, exc, trace, response,
                   invoked>>

\* the caller is done with what it got: the result of get_controllers, the
\* response of handle() or the exception that left handle()
Release ==
    /\ pc \in {"listed", "returned", "raised"}
    /\ pc' = "idle"
    /\ ret' = NoRet
    /\ call' = NoCall
    /\ info' = InfoStart(NoCall.request)
    /\ exc' = NoExc
    /\ trace' = NoTrace
    /\ response' = NewResponse
    /\ invoked' = 0
    /\ returns' = 0
    /\ UNCHANGED <<thr, fs, indexVars>>

Next ==
    \/ CreateRoot
    \/ GetControllers
    \/ GetControllersAgain
    \/ NewCall
    \/ ResolveNamespace
    \/ ResolveClass
    \/ SelectMethod
    \/ Invoke
    \/ HandlerReturns
    \/ HandlerRaises
    \/ MapError
    \/ Return
    \/ Release

Spec == Init /\ [][Next]_vars

\* Requests only, on trees that make every stage of handle() fail and
\* succeed.  handle() is straight-line code: once an exception has reached
\* its except clauses, they run.  Nothing makes a handler method return.
LiveTrees ==
    {Tree(UnitPlain, "pkg", TRUE, FALSE),
     Tree(UnitNoDefault, "none", FALSE, FALSE),
     Tree(UnitImportError, "none", FALSE, FALSE)}

InitLive == fs \in LiveTrees /\ InitCalls

NextLive ==
    \/ NewCall
    \/ ResolveNamespace
    \/ ResolveClass
    \/ SelectMethod
    \/ Invoke
    \/ HandlerReturns
    \/ HandlerRaises
    \/ MapError
    \/ Return
    \/ Release

SpecLive == InitLive /\ [][NextLive]_vars /\ WF_vars(MapError)

\* ------------------------------------------------------ versioned requests
\* root r with a package per version
VersionTree(has1, has2) ==
    Tree(UnitPlain, "none", FALSE, FALSE)
    @@ (IF has1 THEN (<<RootR, V1>> :> (INIT_PY :> UnitPkgA)) ELSE EmptyFn)
    @@ (IF has2 THEN (<<RootR, V2>> :> (INIT_PY :> UnitPkgA)) ELSE EmptyFn)

\* root r whose package v1 has no Default class and a class B that cannot
\* be instantiated
VersionTreeNoDefault ==
    Tree(UnitPlain, "none", FALSE, FALSE)
    @@ (<<RootR, V1>> :> (INIT_PY :> UnitNoDefault))

VersionTrees ==
    {VersionTree(TRUE, TRUE), VersionTree(TRUE, FALSE),
     VersionTree(FALSE, FALSE), VersionTreeNoDefault}

\* request.headers: no Accept header, an empty one, and headers whose
\* entries differ in media type, quality and version parameter
Json(q, params) == MediaType("application", "json", q, params)
RequestHeaders ==
    {EmptyFn} \cup
    {"accept" :> h : h \in
        {<<>>,
         <<Json(NoQ, Version(V1))>>,
         <<MediaType("*", "*", NoQ, Version(V2))>>,
         <<MediaType("text", "html", NoQ, Version(V2)),
           Json(NoQ, EmptyFn)>>,
         <<Json(5, Version(V1)),
           MediaType("application", "*", 9, Version(V2))>>,
         <<MediaType("application", "*", NoQ, Version(V1)),
           Json(10, Version(V2))>>,
         <<Json(NoQ, Version(<<>>)),
           MediaType("text", "html", NoQ, Version(V1)),
           MediaType("*", "*", 1, Version(V2))>>}}

VersionPaths == {p \in Paths : Len(p) <= 1}
DefaultVersions == {VNone, V1}

InitVersion == fs \in VersionTrees /\ InitCalls

\* VersionCall(controller_prefix) is built, given a request and handle() is
\* entered
NewVersionCall ==
    /\ pc = "idle"
    /\ \E m \in Methods, p \in VersionPaths, h \in RequestHeaders,
          dv \in DefaultVersions :
         call' = [kind |-> "VersionCall", controller_prefix |-> RootR,
                  default_version |-> dv,
                  request |-> [method |-> m, path_args |-> p,
                               query_kwargs |-> EmptyFn, headers |-> h]]
    /\ info' = InfoStart(call'.request)
    /\ pc' = "start"
    /\ exc' = NoExc
    /\ trace' = NoTrace
    /\ response' = NewResponse
    /\ invoked' = 0
    /\ returns' = 0
    /\ UNCHANGED <<thr, fs, indexVars, ret>>

NextVersion ==
    \/ NewVersionCall
    \/ ResolveNamespace
    \/ ResolveClass
    \/ SelectMethod
    \/ Invoke
    \/ HandlerReturns
    \/ HandlerRaises
    \/ MapError
    \/ Return
    \/ Release

SpecVersion == InitVersion /\ [][NextVersion]_vars

\* -------------------------------------------------------- routed requests
RouteSegments == {SegA, SegB, SegBA}

RECURSIVE SeqsOver(_, _)
SeqsOver(S, n) ==
    IF n = 0 THEN {<<>>}
    ELSE {<<x>> \o p : x \in S, p \in SeqsOver(S, n - 1)}

RoutePaths == UNION {SeqsOver(RouteSegments, n) : n \in 0..MaxPath}
RouteKwargs ==
    {EmptyFn} \cup {KeyK :> x : x \in {<<"1">>, <<"2">>, <<"x">>}}

InitRoutes == fs = TreeRoutes /\ InitCalls

\* a Call for root r is given a request for the tree of decorated classes
NewRouteCall ==
    /\ pc = "idle"
    /\ \E p \in RoutePaths, k \in RouteKwargs :
         call' = [kind |-> "Call", controller_prefix |-> RootR,
                  default_version |-> VNone,
                  request |-> [method |-> GET, path_args |-> p,
                               query_kwargs |-> k, headers |-> EmptyFn]]
    /\ info' = InfoStart(call'.request)
    /\ pc' = "start"
    /\ exc' = NoExc
    /\ trace' = NoTrace
    /\ response' = NewResponse
    /\ invoked' = 0
    /\ returns' = 0
    /\ UNCHANGED <<thr, fs, indexVars, ret>>

NextRoutes ==
    \/ NewRouteCall
    \/ ResolveNamespace
    \/ ResolveClass
    \/ SelectMethod
    \/ Invoke
    \/ HandlerReturns
    \/ HandlerRaises
    \/ MapError
    \/ Return
    \/ Release

SpecRoutes == InitRoutes /\ [][NextRoutes]_vars

\* ------------------------------------------- get_controllers() in threads
\* Several threads run get_controllers() on the one _module_cache.  A thread
\* can be preempted between any two statements; the tree on disk stays as it
\* is meanwhile.
seqVars == <<fs, ret, pc, callVars>>

\* thread t calls get_controllers(prefix)
TCall(t) ==
    /\ pc = "idle"
    /\ thr[t].pc = "idle"
    /\ \E prefix \in Prefixes :
         thr' = [thr EXCEPT ![t] = [ThreadIdle EXCEPT !.pc = "check",
                                                      !.prefix = prefix]]
    /\ UNCHANGED <<seqVars, indexVars>>

\* the empty-prefix test and the look into _module_cache
TCheck(t) ==
    /\ thr[t].pc = "check"
    /\ LET controller_prefix == thr[t].prefix
       IN  thr' = [thr EXCEPT ![t] =
                     IF controller_prefix = <<>>
                     THEN [@ EXCEPT !.pc = "done", !.exc = Exc("ValueError")]
                     ELSE IF CacheHit(controller_prefix, cache)
                     THEN [@ EXCEPT !.pc = "done",
                                    !.ret = cache[controller_prefix]]
                     ELSE [@ EXCEPT !.pc = "walk"]]
    /\ UNCHANGED <<seqVars, indexVars>>

\* import of the root and the walk that fills the local set "modules"
TWalk(t) ==
    /\ thr[t].pc = "walk"
    /\ LET m == ImportModule(thr[t].prefix)
       IN  IF m.exc # NoExc
           THEN /\ thr' = [thr EXCEPT ![t].pc = "done", ![t].exc = m.exc]
                /\ UNCHANGED indexVars
           ELSE /\ nextId <= MaxObjs
                /\ heap' = heap @@ (nextId :> WalkModules(thr[t].prefix,
                                                          m.mod.basedir))
                /\ nextId' = nextId + 1
                /\ walks' = [walks EXCEPT ![thr[t].prefix] = @ + 1]
                /\ thr' = [thr EXCEPT ![t].pc = "setdefault",
                                      ![t].modules = nextId]
                /\ UNCHANGED cache
    /\ UNCHANGED seqVars

\* _module_cache.setdefault(controller_prefix, {}): an absent key gets a new
\* empty dict
TSetDefault(t) ==
    /\ thr[t].pc = "setdefault"
    /\ IF thr[t].prefix \in DOMAIN cache
       THEN UNCHANGED <<cache, heap, nextId>>
       ELSE /\ nextId <= MaxObjs
            /\ heap' = heap @@ (nextId :> {})
            /\ cache' = cache @@ (thr[t].prefix :> nextId)
            /\ nextId' = nextId + 1
    /\ thr' = [thr EXCEPT ![t].pc = "assign"]
    /\ UNCHANGED <<seqVars, walks>>

\* _module_cache[controller_prefix] = modules; return modules
TAssign(t) ==
    /\ thr[t].pc = "assign"
    /\ cache' = [x \in DOMAIN cache \cup {thr[t].prefix} |->
                   IF x = thr[t].prefix THEN thr[t].modules ELSE cache[x]]
    /\ thr' = [thr EXCEPT ![t].pc = "done", ![t].ret = thr[t].modules]
    /\ UNCHANGED <<seqVars, heap, nextId, walks>>

\* the caller drops what it got
TRelease(t) ==
    /\ thr[t].pc = "done"
    /\ thr' = [thr EXCEPT ![t] = ThreadIdle]
    /\ UNCHANGED <<seqVars, indexVars>>

NextThreads ==
    \E t \in Threads :
        \/ TCall(t)
        \/ TCheck(t)
        \/ TWalk(t)
        \/ TSetDefault(t)
        \/ TAssign(t)
        \/ TRelease(t)

SpecThreads == Init /\ [][NextThreads]_vars

\* ================================================================= claims
Handled == pc \in {"responded", "returned"}
ModuleName(prefix, segs) == Join(<<prefix>> \o segs, DOT)
PathArgs == call.request.path_args
\* the namespace set the current call resolves against
CurrentSet == heap[cache[call.controller_prefix]]
\* the current call got its namespace set and walked it
Walked == call # NoCall /\ info.module_name # <<>>
\* the current call resolved module and class
Resolved == call # NoCall /\ info.class # NoClass

\* C1 (as stated): handle() never raises to its caller; whatever fails, it
\* returns the Response exactly once with code and body taken from the failure.
C1_NeverRaises ==
    /\ pc # "raised"
    /\ returns <= 1
    /\ (pc = "returned" => returns = 1)
    /\ (pc = "returned" /\ trace.stage # "none"
          => /\ response.body = BodyError(exc)
             /\ response.code = HandleCode(exc))

\* C1 (amended): every failure that is an instance of Exception is turned
\* into the returned Response (exactly one return, code and body from the
\* failure); the only exceptions that leave handle() are those outside the
\* Exception hierarchy (SystemExit and the like).
C1_ExceptionsBecomeResponses ==
    /\ (pc = "raised" => ~IsInstance(exc, "Exception"))
    /\ returns <= 1
    /\ (pc = "returned" => returns = 1)
    /\ (pc = "returned" /\ trace.stage # "none"
          => /\ response.body = BodyError(exc)
             /\ response.code = IF exc.type = "CallError"
                                THEN exc.code ELSE 500)

C1_Witness ==
    /\ pc = "returned"
    /\ trace.stage = "namespace"
    /\ trace.exc = Exc("ValueError")
    /\ response.code = 500

C3_MissingMethodIs405 ==
    Handled /\ Resolved /\ info.class.ctor = "ok"
            /\ Upper(call.request.method) \notin info.class.methods
      => /\ response.code = 405
         /\ response.body = BodyError(CallError(405))
         /\ invoked = 0

C3_Witness ==
    /\ pc = "returned"
    /\ info.class_name = Default
    /\ info.class.ctor = "ok"
    /\ call.request.method = POST
    /\ POST \notin info.class.methods
    /\ response.code = 405

\* the module get_controller_info tries to load for the current call
Target ==
    IF info.module_name = <<>> THEN call.controller_prefix
    ELSE info.module_name

C5_LongestPrefixWalk ==
    Walked =>
      LET k == Len(PathArgs) - Len(info.args)
          R == call.controller_prefix
      IN  (pc = "ns_resolved" \/ (pc = "failed" /\ trace.stage = "namespace"))
            => /\ k >= 0
               /\ info.args = SubSeq(PathArgs, k + 1, Len(PathArgs))
               /\ info.module_name = ModuleName(R, SubSeq(PathArgs, 1, k))
               /\ \A j \in 1..k :
                    ModuleName(R, SubSeq(PathArgs, 1, j)) \in CurrentSet
               /\ (k < Len(PathArgs)
                     => ModuleName(R, SubSeq(PathArgs, 1, k + 1))
                          \notin CurrentSet)
               /\ (/\ Len(PathArgs) = 3
                   /\ ModuleName(R, SubSeq(PathArgs, 1, 1)) \in CurrentSet
                   /\ ModuleName(R, SubSeq(PathArgs, 1, 2)) \in CurrentSet
                   /\ ModuleName(R, PathArgs) \notin CurrentSet
                   => /\ info.module_name
                           = ModuleName(R, SubSeq(PathArgs, 1, 2))
                      /\ info.args = <<PathArgs[3]>>)

C5_Witness ==
    /\ pc = "ns_resolved"
    /\ PathArgs = <<SegA, SegB, SegA>>
    /\ info.module_name = <<"r", ".", "a", ".", "b">>
    /\ info.args = <<SegA>>

\* C6: the resolved module name is the longest sequence of leading path
\* segments whose dotted name under the root is in the namespace set.
C6_LongestMatchingPrefix ==
    Walked =>
      LET R == call.controller_prefix
          matching == {j \in 1..Len(PathArgs) :
                         ModuleName(R, SubSeq(PathArgs, 1, j)) \in CurrentSet}
          longest == IF matching = {} THEN 0
                     ELSE CHOOSE j \in matching : \A i \in matching : i <= j
      IN  info.module_name = ModuleName(R, SubSeq(PathArgs, 1, longest))

\* C7: namespace segments, then the class segment if one was consumed, then
\* the positional args are the request's path segments in order; the empty
\* path gives the root module, class Default and no args.
C7_SegmentConservation ==
    Resolved =>
      LET R == call.controller_prefix
          n == Len(PathArgs)
      IN  /\ \E k \in 0..n, c \in {0, 1} :
                /\ k + c <= n
                /\ info.module_name = ModuleName(R, SubSeq(PathArgs, 1, k))
                /\ (c = 1 => info.class_name = Capitalize(PathArgs[k + 1]))
                /\ (c = 0 => info.class_name = Default)
                /\ info.args = SubSeq(PathArgs, k + c + 1, n)
          /\ (n = 0 => /\ info.module_name = R
                       /\ info.class_name = Default
                       /\ info.args = <<>>)

C7_Witness ==
    /\ pc = "class_resolved"
    /\ PathArgs = <<SegA, SegB, SegA>>
    /\ info.module_name = <<"r", ".", "a">>
    /\ info.class_name = ClsB
    /\ info.args = <<SegA>>

\* C8: a module attribute that is not a handler class is never selected as
\* the class: the class stays Default and the segment is the first argument.
C8_HelperNotSelected ==
    /\ (call # NoCall => info.class.kind # "helper")
    /\ (Resolved /\ info.args # PathArgs
          => info.module.attrs[info.class_name].kind = "controller")

\* C9: a request whose first path segment starts with an underscore gets 404
\* before any walk; it is never resolved nor handed to a handler.
C9_PrivateSegmentIs404 ==
    call # NoCall /\ PathArgs # <<>> /\ StartsWith(PathArgs[1], <<"_">>)
      => /\ pc \notin {"ns_resolved", "class_resolved", "method_selected",
                       "invoked"}
         /\ invoked = 0
         /\ (Handled => response.code = 404)

\* C10: once get_controllers(R) has stored its set, every later call for R,
\* whatever is called in between, returns that same object without another
\* walk; the entry is never replaced or removed.
C10_CachedSetIsStable ==
    [][/\ \A p \in DOMAIN cache :
            /\ p \in DOMAIN cache'
            /\ cache'[p] = cache[p]
            /\ heap'[cache[p]] = heap[cache[p]]
            /\ walks'[p] = walks[p]
            /\ (pc' = "listed" /\ ret'.prefix = p
                  => ret'.exc = NoExc /\ ret'.id = cache[p])
       /\ (pc' = "listed" /\ ret'.exc = NoExc
             => /\ ret'.prefix \in DOMAIN cache'
                /\ cache'[ret'.prefix] = ret'.id)]_vars

C10_Witness ==
    /\ pc = "listed"
    /\ ret = [prefix |-> RootR, exc |-> NoExc, id |-> 1, again |-> FALSE]
    /\ cache = (RootR :> 1) @@ (RootS :> 2)
    /\ walks[RootR] = 1
    /\ fs # TreeNoRoot

\* the set a complete walk of the prefix's root yields
FullSet(prefix) == WalkModules(prefix, ImportModule(prefix).mod.basedir)

\* C11: with several threads inside get_controllers(R), every caller returns
\* the fully walked namespace set of R, never a partially initialised cache
\* entry, and once no thread is inside any more the cache holds that set.
C11_CallersGetWalkedSet ==
    /\ \A t \in Threads :
         (thr[t].pc = "done" /\ thr[t].exc = NoExc)
            => heap[thr[t].ret] = FullSet(thr[t].prefix)
    /\ (\A t \in Threads : thr[t].pc \in {"idle", "done"})
          => \A p \in DOMAIN cache : heap[cache[p]] = FullSet(p)

\* the fields of d a caller of get_controller_info() reads
InfoFields(di) ==
    <<di.module_name, di.class_name, di.class, di.method, di.args, di.kwargs>>

\* C16: get_controller_info called twice on the same unchanged request, the
\* first call possibly filling the namespace cache and the second reading it,
\* yields equal module_name, class_name, class, method, args and kwargs (or
\* fails the same way twice); a call resolved by handle() is resolved the same
\* way when it is asked again.
C16_ResolutionIdempotent ==
    /\ pc = "start" =>
         LET r1 == get_controller_info(call, cache, heap, nextId, walks)
             r2 == get_controller_info(call, r1.g.cache, r1.g.heap,
                                       r1.g.nextId, r1.g.walks)
         IN  /\ r1.exc = r2.exc
             /\ r1.exc = NoExc => InfoFields(r1.d) = InfoFields(r2.d)
    /\ pc = "class_resolved" =>
         LET r2 == get_controller_info(call, cache, heap, nextId, walks)
         IN  r2.exc = NoExc /\ InfoFields(r2.d) = InfoFields(info)

\* a call whose resolution filled the cache and consumed a module and a class
\* segment, with arguments and query parameters left
C16_Witness ==
    /\ pc = "class_resolved"
    /\ walks[RootR] = 1
    /\ nextId = 2
    /\ info.module_name = ModuleName(RootR, <<SegA>>)
    /\ info.class_name = ClsB
    /\ info.args # <<>>
    /\ info.kwargs # EmptyFn

\* whether get_controllers() can load the root of the prefix
Loadable(prefix) == prefix # <<>> /\ ImportModule(prefix).exc = NoExc

\* C17: get_controllers raises instead of returning a set when the root is
\* empty or cannot be loaded, and then stores no cache entry, so that a later
\* call for that root loads it anew and succeeds once the root is loadable.
C17_FailedLoadStoresNothing ==
    [][(pc' = "listed" /\ ret' # ret) =>
         LET prefix == ret'.prefix
         IN  /\ (prefix \notin DOMAIN cache /\ ~Loadable(prefix))
                   => /\ ret'.exc # NoExc
                      /\ ret'.id = 0
                      /\ cache' = cache
                      /\ heap' = heap
             /\ (prefix \notin DOMAIN cache /\ Loadable(prefix))
                   => /\ ret'.exc = NoExc
                      /\ walks'[prefix] = walks[prefix] + 1
                      /\ cache'[prefix] = ret'.id
                      /\ heap'[ret'.id] = FullSet(prefix)]_vars

\* the second call for root r succeeded after the first one had raised
C17_Witness ==
    /\ pc = "listed"
    /\ ret.again
    /\ ret.prefix = RootR
    /\ ret.exc = NoExc
    /\ heap[ret.id] = FullSet(RootR)

\* a hidden or private directory name
Pruned(name) == name[1] = "." \/ name[1] = "_"

\* the directories under basedir that no hidden or private directory leads to
OpenDirs(basedir) ==
    {dir \in DOMAIN fs :
        /\ Len(dir) >= Len(basedir)
        /\ SubSeq(dir, 1, Len(basedir)) = basedir
        /\ \A i \in (Len(basedir) + 1)..Len(dir) : ~Pruned(dir[i])}

\* what the claim says the set for the prefix holds
ClaimedSet(prefix) ==
    LET basedir == ImportModule(prefix).mod.basedir
        dotted(dir) ==
            <<prefix>> \o SubSeq(dir, Len(basedir) + 1, Len(dir))
    IN  {Join(dotted(dir), DOT) :
           dir \in {x \in OpenDirs(basedir) : INIT_PY \in DOMAIN fs[x]}}
        \cup UNION {{Join(dotted(dir) \o <<SubSeq(f, 1, Len(f) - Len(PY))>>,
                          DOT) :
                       f \in {g \in DOMAIN fs[dir] :
                                /\ EndsWith(g, PY)
                                /\ g # INIT_PY
                                /\ g[1] # "_"}} :
                    dir \in OpenDirs(basedir)}

\* C18: the set get_controllers(R) returns holds exactly the dotted name of
\* every package under R, R included, and of every leaf module whose file
\* name does not start with an underscore, and nothing located under a hidden
\* or private directory.
C18_WalkedSetExact ==
    \A prefix \in DOMAIN cache : heap[cache[prefix]] = ClaimedSet(prefix)

\* the stage of the request handle() is at
Stage ==
    CASE pc = "start" -> "UNRESOLVED"
      [] pc = "ns_resolved" -> "NAMESPACE_RESOLVED"
      [] pc = "class_resolved" -> "CLASS_RESOLVED"
      [] pc = "method_selected" -> "METHOD_SELECTED"
      [] pc = "invoked" -> "INVOKED"
      [] pc = "failed" -> "FAILED"
      [] pc \in {"responded", "returned"} -> "RESPONDED"
      [] pc = "raised" -> "LEFT"
      [] OTHER -> "NONE"

\* the stage changes of a dispatch while it runs towards its handler
StageAdvances ==
    /\ pc = "start" => pc' \in {"ns_resolved", "failed"}
    /\ pc = "ns_resolved" => pc' \in {"class_resolved", "failed"}
    /\ pc = "class_resolved" => pc' \in {"method_selected", "failed"}
    /\ pc = "method_selected" => pc' = "invoked"
    /\ pc = "invoked" => pc' \in {"responded", "failed"}

\* RESPONDED is terminal: handle() only returns, nothing is written any more
RespondedIsTerminal ==
    /\ pc = "responded" => (pc' = "returned" /\ response' = response)
    /\ pc = "returned" => (pc' = "idle" /\ call' = NoCall)

\* the error is mapped to the response
ErrorMapped ==
    /\ pc' = "responded"
    /\ response'.code = (IF IsInstance(exc, "CallError")
                         THEN exc.code ELSE 500)
    /\ response'.body = BodyError(exc)

\* C20 (as stated): the stages of a dispatched request occur only in the
\* order UNRESOLVED, NAMESPACE_RESOLVED, CLASS_RESOLVED, METHOD_SELECTED,
\* INVOKED, then RESPONDED or FAILED; every failure is followed by the
\* mapping of the error to the response and RESPONDED; RESPONDED is terminal.
C20_StageOrder ==
    [][/\ StageAdvances
       /\ pc = "failed" => ErrorMapped
       /\ RespondedIsTerminal]_vars

\* C20 (amended): the stages occur only in that order; every failure with an
\* instance of Exception is followed by the mapping of the error and
\* RESPONDED, and does get there; any other failure leaves handle() with the
\* response untouched; RESPONDED is terminal.
C20_StageOrderExceptions ==
    /\ [][/\ StageAdvances
          /\ (pc = "failed" /\ IsInstance(exc, "Exception")) => ErrorMapped
          /\ (pc = "failed" /\ ~IsInstance(exc, "Exception"))
                => (pc' = "raised" /\ response' = response)
          /\ RespondedIsTerminal]_vars
    /\ (pc = "failed" /\ IsInstance(exc, "Exception")) ~> (pc = "responded")

\* a request that went through every stage, whose handler raised and whose
\* error was mapped to the response
C20_Witness ==
    /\ pc = "responded"
    /\ trace.stage = "handler"
    /\ invoked = 1
    /\ IsInstance(exc, "Exception")
    /\ response.body = BodyError(exc)

\* the compatible entries of the request's Accept header that carry a
\* non-empty version, as positions in the header as it was sent
VersionEntries ==
    LET header == AcceptOf(call.request)
    IN  {i \in 1..Len(header) :
           /\ Compatible(header[i], ContentMedia)
           /\ "version" \in DOMAIN header[i].params
           /\ header[i].params["version"] # <<>>}

\* the entry the client prefers: no other one has a higher quality, or the
\* same quality and an earlier place in the header
Preferred(i) ==
    LET header == AcceptOf(call.request)
    IN  \A j \in VersionEntries \ {i} :
           \/ Quality(header[j]) < Quality(header[i])
           \/ Quality(header[j]) = Quality(header[i]) /\ i < j

\* the current VersionCall has got past get_version()
VersionTaken ==
    /\ call.kind = "VersionCall"
    /\ pc \notin {"idle", "start"}

NotAcceptable ==
    /\ pc \in {"failed", "responded", "returned"}
    /\ trace = [stage |-> "namespace", exc |-> CallError(406)]
    /\ exc = CallError(406)
    /\ invoked = 0
    /\ Handled => response.code = 406

\* C12: when the Accept header is missing, empty or yields no version for
\* the declared content type, get_version returns the configured
\* default_version without error; with no default_version it raises
\* CallError 406, which handle() reports as code 406.
C12_VersionFallback ==
    (VersionTaken /\ VersionEntries = {}) =>
        IF call.default_version # VNone
        THEN /\ info.controller_prefix = RootR \o DOT \o call.default_version
             /\ trace.exc # CallError(406)
        ELSE NotAcceptable

\* a versioned request whose Accept header names no version for
\* application/json, answered with 406
C12_Witness ==
    /\ call.kind = "VersionCall"
    /\ AcceptOf(call.request) # <<>>
    /\ VersionEntries = {}
    /\ call.default_version = VNone
    /\ pc = "returned"
    /\ response.code = 406
    /\ response.body = BodyError(CallError(406))

\* C13: get_version returns the version parameter of the first Accept entry,
\* in the order of client preference (quality descending, ties in the order
\* of the header), that is compatible with the declared content type (the
\* same type/subtype, type/* or */*) and carries a non-empty version.
C13_PreferredVersion ==
    VersionTaken =>
        \A i \in VersionEntries :
            Preferred(i) =>
                /\ info.controller_prefix =
                     RootR \o DOT \o AcceptOf(call.request)[i].params["version"]
                /\ trace.exc # CallError(406)

\* a versioned request resolved in the package of the version that a later,
\* higher rated wildcard entry of the header names, although a default
\* version is configured
C13_Witness ==
    /\ call.kind = "VersionCall"
    /\ Len(AcceptOf(call.request)) > 1
    /\ \E i \in VersionEntries :
          /\ i > 1
          /\ Preferred(i)
          /\ AcceptOf(call.request)[i].subtype = "*"
          /\ AcceptOf(call.request)[i].params["version"] = V2
    /\ call.default_version = V1
    /\ pc = "ns_resolved"
    /\ info.module_name = RootR \o DOT \o V2

\* the alternatives the resolved class declares for the request's method
Alternatives ==
    IF Resolved /\ info.method \in DOMAIN info.class.routes
    THEN info.class.routes[info.method]
    ELSE <<>>

\* what the predicate of the i-th alternative returns for the request
Matches(i) == RouteTarget(Alternatives[i].deco, call.request, info)

\* get_callback_info is through with the selection
Selected ==
    /\ Alternatives # <<>>
    /\ pc \notin {"idle", "start", "ns_resolved", "class_resolved"}

\* C14: among the alternatives sharing one method name the predicates are
\* evaluated in the order of declaration; the first alternative whose
\* predicate returns true is the one invoked, no alternative declared later
\* is evaluated or invoked, and at most one is invoked per request.
C14_FirstMatchInvoked ==
    /\ invoked <= 1
    /\ Selected =>
         /\ info.tried = [i \in 1..Len(info.tried) |-> Alternatives[i].name]
         /\ \A i \in 1..Len(info.tried) - 1 :
               Matches(i) = [exc |-> NoExc, ret |-> FALSE]
    /\ (Selected /\ info.callback # <<>>) =>
         /\ Matches(Len(info.tried)) = [exc |-> NoExc, ret |-> TRUE]
         /\ info.callback = Alternatives[Len(info.tried)].name
    /\ (Selected /\ invoked = 1) => info.callback # <<>>
    /\ (Selected /\ \E i \in 1..Len(Alternatives) : Matches(i).ret) =>
         /\ info.callback # <<>>
         /\ pc # "failed" \/ trace.stage = "handler"

\* the second alternative was invoked although the third matches as well
C14_Witness ==
    /\ Selected
    /\ invoked = 1
    /\ Len(Alternatives) = 3
    /\ info.callback = Alternatives[2].name
    /\ Matches(3).ret
    /\ pc = "returned"

\* C15: when the predicate of no alternative matches, none is invoked and
\* the failure action decides the status: CallError 405 for route and
\* path_route alternatives, CallError 400 for param_route alternatives.
C15_NoMatchFails ==
    (Selected /\ \A i \in 1..Len(Alternatives) :
                    Matches(i) = [exc |-> NoExc, ret |-> FALSE]) =>
        LET code == IF Alternatives[1].deco.kind = "param_route"
                    THEN 400 ELSE 405
        IN  /\ invoked = 0
            /\ info.callback = <<>>
            /\ info.tried = [i \in 1..Len(Alternatives) |->
                               Alternatives[i].name]
            /\ pc \in {"failed", "responded", "returned"}
            /\ trace = [stage |-> "route", exc |-> CallError(code)]
            /\ Handled => response.code = code

\* a request without the query parameter both param_route alternatives ask
\* for, answered with 400
C15_Witness ==
    /\ Selected
    /\ Alternatives[1].deco.kind = "param_route"
    /\ call.request.query_kwargs = EmptyFn
    /\ info.tried = <<Suffixed(GET, 1), Suffixed(GET, 2)>>
    /\ pc = "returned"
    /\ response.code = 400

\* the first character upper-cased, every other character as it is
UpperFirst(x) == <<UpperChar(x[1])>> \o Tail(x)

\* the path segments the namespace walk left for the class lookup
ClassPath ==
    SubSeq(PathArgs,
           Len(Split(info.module_name, ".")) -
             Len(Split(info.controller_prefix, ".")) + 1,
           Len(PathArgs))

\* C19: the candidate class name is the next path segment with its first
\* character upper-cased and every other character unchanged, and the class
\* attribute looked up has exactly that name: a module that has a class of
\* that name resolves to it.
C19_FirstCharacterOnly ==
    (Resolved /\ ClassPath # <<>>
       /\ UpperFirst(ClassPath[1]) \in DOMAIN info.module.attrs) =>
        /\ info.class_name = UpperFirst(ClassPath[1])
        /\ info.class = info.module.attrs[UpperFirst(ClassPath[1])]

\* C21: on a successful invocation handle() has set the Content-Type header
\* to the declared content type, sets the body to exactly what the handler
\* method returned and leaves the status code as it was, the default one.
C21_SuccessResponse ==
    [][/\ (pc = "invoked" /\ pc' = "responded") =>
            /\ response.content_type = "application/json"
            /\ response.code = NewResponse.code
            /\ \E v \in ReturnValues :
                  response' = [response EXCEPT !.body = BodyValue(v)]
       /\ (pc = "responded" /\ trace = NoTrace) =>
            (pc' = "returned" /\ response' = response)]_vars

\* handle() returned the response of a handler method that returned "bye"
C21_Witness ==
    /\ pc = "returned"
    /\ trace = NoTrace
    /\ invoked = 1
    /\ returns = 1
    /\ response = [code |-> 200, body |-> BodyValue("bye"),
                   content_type |-> content_type]

\* what the claim says the predicate of a param_route returns: every key is
\* there, and the value of every match, coerced to the type of the declared
\* value, equals it
ParamHolds(deco, method_kwargs) ==
    /\ \A i \in 1..Len(deco.keys) : deco.keys[i] \in DOMAIN method_kwargs
    /\ \A i \in 1..Len(deco.matches) :
          LET k == deco.matches[i][1]
              v == deco.matches[i][2]
          IN  /\ k \in DOMAIN method_kwargs
              /\ Coerce(v, method_kwargs[k]).exc = NoExc
              /\ Coerce(v, method_kwargs[k]).val = v.val

\* C22: the predicate of a param_route returns true if and only if every
\* declared key is among the resolved keyword args and every declared
\* key=value match equals the request's value coerced to the type of the
\* declared value; for every other request (a missing key, an unequal value,
\* a value that cannot be coerced) it returns false and does not raise.
C22_ParamRoutePredicate ==
    \A i \in 1..Len(Alternatives) :
        Alternatives[i].deco.kind = "param_route" =>
            /\ Matches(i).exc = NoExc
            /\ Matches(i).ret = ParamHolds(Alternatives[i].deco, info.kwargs)

\* the stages of handle() that come before the callback is called
BeforeInvocation == {"namespace", "class", "instance", "method"}

\* C23: within one handle() call the handler method is invoked at most once,
\* and only after get_controller_info succeeded, the class was instantiated
\* and the method was found on the instance; when a 404, 405 or 406 comes up
\* before the invocation, no handler method has run and handle() has not
\* written the Content-Type header.
C23_InvokedOnceAfterLookup ==
    /\ invoked \in {0, 1}
    /\ invoked = 1 =>
          /\ Resolved
          /\ info.class.ctor = "ok"
          /\ info.method \in info.class.methods
          /\ trace = NoTrace \/ trace.stage = "handler"
    /\ (trace # NoTrace /\ trace.stage \in BeforeInvocation) =>
          /\ exc \in {CallError(404), CallError(405), CallError(406)} =>
                /\ invoked = 0
                /\ response.content_type = NewResponse.content_type
          /\ pc \in {"failed", "responded", "returned", "raised"}

\* a versioned request answered with 406: no handler method ran and the
\* Content-Type header is as the response was built
C23_Witness ==
    /\ call.kind = "VersionCall"
    /\ pc = "returned"
    /\ trace = [stage |-> "namespace", exc |-> CallError(406)]
    /\ response.code = 406
    /\ invoked = 0
    /\ response.content_type = NewResponse.content_type
    /\ response.content_type # content_type

\* C24: an AttributeError raised in the constructor of the handler class is
\* reported by handle() as 405, the same as a missing entry point for the
\* HTTP method; an AttributeError raised inside the invoked handler method is
\* reported as 500, and one raised during get_controller_info as 404.
C24_AttributeErrorCodes ==
    (Handled /\ trace # NoTrace /\ trace.exc = Exc("AttributeError")) =>
        /\ trace.stage \in {"instance", "method"} =>
              /\ response.code = 405
              /\ response.body = BodyError(CallError(405))
        /\ trace.stage = "handler" =>
              /\ response.code = 500
              /\ response.body = BodyError(Exc("AttributeError"))
        /\ trace.stage \in {"namespace", "class"} =>
              /\ response.code = 404
              /\ response.body = BodyError(CallError(404))

\* handle() returned 405 for a class whose constructor raised AttributeError,
\* although the class has the method of the request
C24_Witness ==
    /\ pc = "returned"
    /\ trace = [stage |-> "instance", exc |-> Exc("AttributeError")]
    /\ info.class.ctor = "AttributeError"
    /\ info.method \in info.class.methods
    /\ invoked = 0
    /\ response.code = 405
====
